---------------------------- MODULE Spec2Model ----------------------------
(***************************************************************************)
(* A model of the VGT pipeline (src/pipeline.py, src/pipeline_base.py).    *)
(*                                                                         *)
(*   SpecParse : Pipeline.parse_stats_output, one step per field of the    *)
(*               `for key, pattern in patterns.items()` loop.              *)
(*   SpecRms   : Pipeline.calculate_mean_rms from the captured stdout on.  *)
(*   SpecRun   : Pipeline.run and Pipeline.run_starlink_collapse.          *)
(*                                                                         *)
(* A text is a sequence of symbols.  A symbol is one character, except     *)
(* that the literal phrases the code searches for (the field labels and    *)
(* the separator of calculate_mean_rms) are one symbol each; the label     *)
(* "No. of pixels excluded" is the three symbols "No", ".",                *)
(* " of pixels excluded" so that its period is a character of its own.     *)
(***************************************************************************)
EXTENDS Integers, Sequences, FiniteSets, TLC

VARIABLES
    \* parse_stats_output
    stats_output,   \* the argument
    stats_dict,     \* the mapping being built (Absent: no such key)
    key_idx,        \* position of the loop in patterns.items()
    parse_pc,       \* "idle" | "loop" | "returned" | "raised"
    \* calculate_mean_rms
    preamble,       \* what the shell printed before the first report
    sections,       \* the reports the shell printed after it, in order
    full_output,    \* result.stdout
    stats_blocks,   \* full_output.split(...)
    block_idx,      \* position of the loop over zip(stats_outputs, stats_files)
    block_dict,     \* stats_dict of the current iteration
    files,          \* the three JSON files on disk
    files_before,   \* the three JSON files as they were when the call began
    written,        \* the files json.dump has completed, in order
    rms_pc,         \* "idle" | "shell" | "split" | "check" | "parse" | "open" | "dump" | "done" | "raised"
    rms_error,      \* "none" | "CalledProcessError" | "ValueError: not enough stats blocks" | "ValueError: conversion"
    \* run / run_starlink_collapse
    configs,        \* glob.glob(...): the programID of each matched config
    cfg_idx,        \* position of the loop over configs
    run_pc,         \* "idle" | "load" | "julia" | "in_julia" | "collapse" | "in_collapse" | "viz" | "in_viz" | "done" | "raised"
    mom0,           \* data/<programID>/mom0.fits, per programID
    stage_log,      \* the stages started so far, <<config index, stage>>
    stage_done,     \* how many of them have returned without error
    collapse_cmds   \* how often the external collapse command ran, per programID

parse_vars == <<stats_output, stats_dict, key_idx, parse_pc>>
rms_vars == <<preamble, sections, full_output, stats_blocks, block_idx, block_dict,
              files, files_before, written, rms_pc, rms_error>>
run_vars == <<configs, cfg_idx, run_pc, mom0, stage_log, stage_done, collapse_cmds>>
vars == <<parse_vars, rms_vars, run_vars>>

---------------------------------------------------------------------------
(* Bounds of the model.                                                    *)

\* longest run of blanks on either side of the colon in a generated line
MaxWs == 2
\* most reports after the preamble in a generated captured output
MaxSections == 4
\* most configs matched by the glob
MaxConfigs == 3

---------------------------------------------------------------------------
(* Characters and sequences.                                               *)

Min(S) == CHOOSE x \in S : \A y \in S : x <= y
Max(S) == CHOOSE x \in S : \A y \in S : x >= y

\* \s of Python's re
Whitespace == {" ", "\n", "\t"}
\* \d of Python's re, restricted to ASCII
Digit == {"0", "1", "2", "3", "4", "5", "6", "7", "8", "9"}

DigitVal(c) ==
    CASE c = "0" -> 0 [] c = "1" -> 1 [] c = "2" -> 2 [] c = "3" -> 3
      [] c = "4" -> 4 [] c = "5" -> 5 [] c = "6" -> 6 [] c = "7" -> 7
      [] c = "8" -> 8 [] c = "9" -> 9

\* str.lower on one symbol
Lower(c) == IF c = "E" THEN "e" ELSE c

\* the first index of s holding a member of S, 0 if none
IndexOf(s, S) ==
    LET hits == {i \in 1..Len(s) : s[i] \in S}
    IN  IF hits = {} THEN 0 ELSE Min(hits)

\* the length of the longest run of members of S in text from position p
RunLen(text, p, S) ==
    Max({n \in 0..(Len(text) + 1 - p) : \A r \in p..(p + n - 1) : text[r] \in S})

\* str.strip
RECURSIVE strip(_)
strip(s) ==
    IF s = <<>> THEN s
    ELSE IF Head(s) \in Whitespace THEN strip(Tail(s))
    ELSE IF s[Len(s)] \in Whitespace THEN strip(SubSeq(s, 1, Len(s) - 1))
    ELSE s

---------------------------------------------------------------------------
(* Numbers: the values int() and float() return.  A float is the exact     *)
(* decimal mant * 10^exp with its sign, mant without a trailing zero; the  *)
(* model's tokens stay far inside the range where float() is exact to the  *)
(* digits written.                                                         *)

Absent == [kind |-> "absent", neg |-> FALSE, mant |-> 0, exp |-> 0]

IntValue(neg, n) == [kind |-> "int", neg |-> neg /\ n # 0, mant |-> n, exp |-> 0]

RECURSIVE TrimZeros(_, _)
TrimZeros(m, e) ==
    IF m = 0 THEN <<0, 0>>
    ELSE IF m % 10 = 0 THEN TrimZeros(m \div 10, e + 1)
    ELSE <<m, e>>

FloatValue(neg, m, e) ==
    LET t == TrimZeros(m, e)
    IN  [kind |-> "float", neg |-> neg, mant |-> t[1], exp |-> t[2]]

Converted(v) == [ok |-> TRUE, value |-> v]
ValueError == [ok |-> FALSE, value |-> Absent]

AllDigits(s) == \A i \in 1..Len(s) : s[i] \in Digit

RECURSIVE DigitsVal(_)
DigitsVal(ds) ==
    IF ds = <<>> THEN 0
    ELSE DigitsVal(SubSeq(ds, 1, Len(ds) - 1)) * 10 + DigitVal(ds[Len(ds)])

Signed(s) == Len(s) >= 1 /\ s[1] \in {"-", "+"}
Unsigned(s) == IF Signed(s) THEN Tail(s) ELSE s

\* int(value): an optional sign and one or more digits, anything else raises
py_int(s) ==
    LET body == Unsigned(s)
    IN  IF Len(body) >= 1 /\ AllDigits(body)
        THEN Converted(IntValue(Signed(s) /\ s[1] = "-", DigitsVal(body)))
        ELSE ValueError

\* float(value): [sign] digits [. digits] [e|E [sign] digits] with a digit
\* before or after the point, anything else raises
py_float(s) ==
    LET body == Unsigned(s)
        ePos == IndexOf(body, {"e", "E"})
        mantPart == IF ePos = 0 THEN body ELSE SubSeq(body, 1, ePos - 1)
        expPart == IF ePos = 0 THEN <<>> ELSE SubSeq(body, ePos + 1, Len(body))
        dotPos == IndexOf(mantPart, {"."})
        intDigits == IF dotPos = 0 THEN mantPart ELSE SubSeq(mantPart, 1, dotPos - 1)
        fracDigits == IF dotPos = 0 THEN <<>>
                      ELSE SubSeq(mantPart, dotPos + 1, Len(mantPart))
        expDigits == Unsigned(expPart)
        expOk == ePos = 0 \/ (Len(expDigits) >= 1 /\ AllDigits(expDigits))
        mantOk == /\ AllDigits(intDigits)
                  /\ AllDigits(fracDigits)
                  /\ Len(intDigits) + Len(fracDigits) >= 1
        expVal == IF ePos = 0 THEN 0
                  ELSE IF Signed(expPart) /\ expPart[1] = "-"
                       THEN 0 - DigitsVal(expDigits)
                       ELSE DigitsVal(expDigits)
    IN  IF mantOk /\ expOk
        THEN Converted(FloatValue(Signed(s) /\ s[1] = "-",
                                  DigitsVal(intDigits \o fracDigits),
                                  expVal - Len(fracDigits)))
        ELSE ValueError

---------------------------------------------------------------------------
(* Regular expressions, as far as parse_stats_output uses them: a pattern   *)
(* is a sequence of elements, each a literal symbol, a wildcard (an         *)
(* unescaped period) or a run (plus, star) over a character class, the last *)
(* one capturing group 1.  The classes that follow one another in the       *)
(* code's patterns are disjoint (\s, the colon, the token class), so the    *)
(* greedy run is the only way a run can match and no backtracking arises.   *)

Lit(c) == [kind |-> "lit", sym |-> c, class |-> {}, group |-> FALSE]
Plus(S) == [kind |-> "plus", sym |-> "", class |-> S, group |-> FALSE]
Group(S) == [kind |-> "plus", sym |-> "", class |-> S, group |-> TRUE]
\* the elements the code's patterns do not hold, only faulty variants of
\* them: an unescaped period and a zero-or-more run
AnyChar == [kind |-> "any", sym |-> "", class |-> {}, group |-> FALSE]
Star(S) == [kind |-> "star", sym |-> "", class |-> S, group |-> FALSE]

NoMatch == [ok |-> FALSE, group1 |-> <<>>]

RECURSIVE MatchFrom(_, _, _, _, _)
MatchFrom(pat, text, j, p, cap) ==
    IF j > Len(pat) THEN [ok |-> TRUE, group1 |-> cap]
    ELSE LET e == pat[j]
         IN  CASE e.kind = "lit" ->
                    IF p <= Len(text) /\ text[p] = e.sym
                    THEN MatchFrom(pat, text, j + 1, p + 1, cap)
                    ELSE NoMatch
               [] e.kind = "any" ->
                    IF p <= Len(text) /\ text[p] # "\n"
                    THEN MatchFrom(pat, text, j + 1, p + 1, cap)
                    ELSE NoMatch
               [] e.kind = "star" ->
                    MatchFrom(pat, text, j + 1, p + RunLen(text, p, e.class), cap)
               [] e.kind = "plus" ->
                    LET n == RunLen(text, p, e.class)
                    IN  IF n = 0 THEN NoMatch
                        ELSE MatchFrom(pat, text, j + 1, p + n,
                                       IF e.group THEN SubSeq(text, p, p + n - 1)
                                       ELSE cap)

\* re.search: the match at the leftmost position where the pattern matches
re_search(pat, text) ==
    LET starts == {i \in 1..Len(text) : MatchFrom(pat, text, 1, i, <<>>).ok}
    IN  IF starts = {} THEN NoMatch
        ELSE MatchFrom(pat, text, 1, Min(starts), <<>>)

---------------------------------------------------------------------------
(* parse_stats_output.                                                      *)

\* the keys of `patterns`, in the order of the dict
FieldNames ==
    << "Pixel sum", "Pixel mean", "Standard deviation", "Skewness", "Kurtosis",
       "Minimum pixel value", "Maximum pixel value", "Total number of pixels",
       "Number of pixels used", "No. of pixels excluded" >>

FieldSet == {FieldNames[i] : i \in 1..Len(FieldNames)}

\* [-\d\.eE\+]
TokenClass == {"-", ".", "e", "E", "+"} \cup Digit

\* the fields whose pattern ends in (\d+)
CountFields ==
    {"Total number of pixels", "Number of pixels used", "No. of pixels excluded"}

\* the label part of a field's pattern: "No\. of pixels excluded" escapes
\* its period, the other labels hold no metacharacter
LabelMutWildcard(key) ==
    IF key = "No. of pixels excluded"
    THEN <<Lit("No"), AnyChar, Lit(" of pixels excluded")>>
    ELSE <<Lit(key)>>

LabelPattern(key) ==
    IF key = "No. of pixels excluded"
    THEN <<Lit("No"), Lit("."), Lit(" of pixels excluded")>>
    ELSE <<Lit(key)>>

\* the bug of the count fields' (\d+) for every field
CaptureClassMutDigits(key) == Digit

\* group 1 of a field's pattern
CaptureClass(key) == IF key \in CountFields THEN Digit ELSE TokenClass

\* the bug of \s*:\s* in place of \s+:\s+
SeparatorMutStar == <<Star(Whitespace), Lit(":"), Star(Whitespace)>>

\* \s+:\s+
Separator == <<Plus(Whitespace), Lit(":"), Plus(Whitespace)>>

patterns(key) == LabelPattern(key) \o Separator \o <<Group(CaptureClass(key))>>

\* the bug of typing every token as a float
IsFloatTokenMutAlways(value) == TRUE

\* '.' in value or 'e' in value.lower()
IsFloatToken(value) ==
    \/ \E i \in 1..Len(value) : value[i] = "."
    \/ \E i \in 1..Len(value) : Lower(value[i]) = "e"

\* lines 79-83: the conversion of a captured token
ConvertToken(group1) ==
    LET value == strip(group1)
    IN  IF IsFloatToken(value) THEN py_float(value) ELSE py_int(value)

\* one iteration of the loop on a dict d: the dict after it, or the error
ParseField(d, key, text) ==
    LET match == re_search(patterns(key), text)
    IN  IF ~match.ok THEN [ok |-> TRUE, dict |-> d]
        ELSE LET c == ConvertToken(match.group1)
             IN  IF c.ok THEN [ok |-> TRUE, dict |-> [d EXCEPT ![key] = c.value]]
                 ELSE [ok |-> FALSE, dict |-> d]

EmptyDict == [k \in FieldSet |-> Absent]

RECURSIVE ParseFrom(_, _, _)
ParseFrom(d, i, text) ==
    IF i > Len(FieldNames) THEN [ok |-> TRUE, dict |-> d]
    ELSE LET r == ParseField(d, FieldNames[i], text)
         IN  IF r.ok THEN ParseFrom(r.dict, i + 1, text) ELSE r

\* the whole function: the returned dict, or ok = FALSE when it raises
parse_stats_output(text) == ParseFrom(EmptyDict, 1, text)

---------------------------------------------------------------------------
(* The texts parse_stats_output is run on: a line                          *)
(* <label><blanks>:<blanks><token>, every part varied, and an optional      *)
(* second line.                                                             *)

Blanks(n) == [i \in 1..n |-> " "]

\* a label as it stands in a text
LabelText(key) ==
    IF key = "No. of pixels excluded"
    THEN <<"No", ".", " of pixels excluded">>
    ELSE <<key>>

\* the label of the last field with another character in place of the period
NoxLabel == <<"No", "x", " of pixels excluded">>

T42 == <<"4", "2">>
T42p0 == <<"4", "2", ".", "0">>
T1p5E03 == <<"1", ".", "5", "E", "+", "0", "3">>
Tm7 == <<"-", "7">>
Tm0p3 == <<"-", "0", ".", "3">>
T7 == <<"7">>
T1 == <<"1">>
\* runs of token characters that are no number
Te == <<"e">>
Tminus == <<"-">>
T1p2p3 == <<"1", ".", "2", ".", "3">>
\* no token character at all
Tx == <<"x">>

LabelTexts == {LabelText(FieldNames[i]) : i \in 1..Len(FieldNames)} \cup {NoxLabel}

SepTexts ==
    {Blanks(a) \o <<":">> \o Blanks(b) : a, b \in 0..MaxWs} \cup {<<" ">>}

TokenTexts == {T42, T42p0, T1p5E03, Tm7, Tm0p3, T7, Te, Tminus, T1p2p3, Tx}

FirstLines == {l \o sp \o t : l \in LabelTexts, sp \in SepTexts, t \in TokenTexts}

SecondLabels ==
    {LabelText("Pixel sum"), LabelText("Skewness"),
     LabelText("Total number of pixels"), LabelText("No. of pixels excluded")}

SecondLines ==
    {<<>>} \cup {<<"\n">> \o l \o <<"\t", ":", " ">> \o t :
                    l \in SecondLabels, t \in {T7, Te}}

ParseTexts == {a \o b : a \in FirstLines, b \in SecondLines}

---------------------------------------------------------------------------
(* SpecParse: parse_stats_output, one step per iteration of its loop.       *)

RmsIdle ==
    /\ preamble = <<>> /\ sections = <<>> /\ full_output = <<>>
    /\ stats_blocks = <<>> /\ block_idx = 0 /\ block_dict = EmptyDict
    /\ files = <<>> /\ files_before = <<>> /\ written = <<>>
    /\ rms_pc = "idle" /\ rms_error = "none"

RunIdle ==
    /\ configs = <<>> /\ cfg_idx = 0 /\ run_pc = "idle"
    /\ mom0 = <<>> /\ stage_log = <<>> /\ stage_done = 0 /\ collapse_cmds = <<>>

ParseIdle ==
    /\ stats_output = <<>> /\ stats_dict = EmptyDict
    /\ key_idx = 0 /\ parse_pc = "idle"

InitParse ==
    /\ stats_output \in ParseTexts
    /\ stats_dict = EmptyDict
    /\ key_idx = 1
    /\ parse_pc = "loop"
    /\ RmsIdle /\ RunIdle

\* lines 76-83, an iteration that ends normally
ForKey ==
    /\ parse_pc = "loop" /\ key_idx <= Len(FieldNames)
    /\ LET r == ParseField(stats_dict, FieldNames[key_idx], stats_output)
       IN  /\ r.ok
           /\ stats_dict' = r.dict
    /\ key_idx' = key_idx + 1
    /\ UNCHANGED <<stats_output, parse_pc, rms_vars, run_vars>>

\* lines 81 and 83, int() or float() raising
ForKeyRaise ==
    /\ parse_pc = "loop" /\ key_idx <= Len(FieldNames)
    /\ ~ParseField(stats_dict, FieldNames[key_idx], stats_output).ok
    /\ parse_pc' = "raised"
    /\ UNCHANGED <<stats_output, stats_dict, key_idx, rms_vars, run_vars>>

\* line 84
ParseReturn ==
    /\ parse_pc = "loop" /\ key_idx > Len(FieldNames)
    /\ parse_pc' = "returned"
    /\ UNCHANGED <<stats_output, stats_dict, key_idx, rms_vars, run_vars>>

NextParse == ForKey \/ ForKeyRaise \/ ParseReturn

SpecParse == InitParse /\ [][NextParse]_vars

---------------------------------------------------------------------------
(* What the claims about parse_stats_output speak of, stated on positions   *)
(* of the text and not through the patterns.                                *)

\* the numeric tokens of the generated texts and the value each denotes
NumericTokens == {T42, T42p0, T1p5E03, Tm7, Tm0p3, T7, T1}

ValueOfToken(t) ==
    CASE t = T42 -> [kind |-> "int", neg |-> FALSE, mant |-> 42, exp |-> 0]
      [] t = T42p0 -> [kind |-> "float", neg |-> FALSE, mant |-> 42, exp |-> 0]
      [] t = T1p5E03 -> [kind |-> "float", neg |-> FALSE, mant |-> 15, exp |-> 2]
      [] t = Tm7 -> [kind |-> "int", neg |-> TRUE, mant |-> 7, exp |-> 0]
      [] t = Tm0p3 -> [kind |-> "float", neg |-> TRUE, mant |-> 3, exp |-> -1]
      [] t = T7 -> [kind |-> "int", neg |-> FALSE, mant |-> 7, exp |-> 0]
      [] t = T1 -> [kind |-> "int", neg |-> FALSE, mant |-> 1, exp |-> 0]

\* the characters a field's token may be made of: sign, digit, point and
\* exponent mark for the seven real-valued fields, digits for the three counts
RealFields ==
    {"Pixel sum", "Pixel mean", "Standard deviation", "Skewness", "Kurtosis",
     "Minimum pixel value", "Maximum pixel value"}

NumberChars == Digit \cup {"-", "+", ".", "e", "E"}

TokenCharsOf(key) == IF key \in RealFields THEN NumberChars ELSE Digit

HasAt(text, i, s) ==
    /\ i + Len(s) - 1 <= Len(text)
    /\ \A k \in 1..Len(s) : text[i + k - 1] = s[k]

\* where the colon and the token would stand for a label at position i
ColonPos(text, key, i) ==
    LET from == i + Len(LabelText(key))
    IN  from + RunLen(text, from, Whitespace)

TokenPos(text, key, i) ==
    LET from == ColonPos(text, key, i) + 1
    IN  from + RunLen(text, from, Whitespace)

\* at position i stand the label, at least minws blanks, a colon, at least
\* minws blanks and a character of the set chars
LineAt(text, key, i, minws, chars) ==
    LET c == ColonPos(text, key, i)
        t == TokenPos(text, key, i)
    IN  /\ HasAt(text, i, LabelText(key))
        /\ c - (i + Len(LabelText(key))) >= minws
        /\ c <= Len(text) /\ text[c] = ":"
        /\ t - (c + 1) >= minws
        /\ t <= Len(text) /\ text[t] \in chars

LinePositions(text, key, minws, chars) ==
    {i \in 1..Len(text) : LineAt(text, key, i, minws, chars)}

\* the longest run of characters of chars that starts where the token of
\* the label at position i starts
TokenAt(text, key, i, chars) ==
    LET t == TokenPos(text, key, i)
    IN  SubSeq(text, t, t + RunLen(text, t, chars) - 1)

\* the fields the loop has got past
Processed == {FieldNames[i] : i \in 1..(key_idx - 1)}

\* the token of the leftmost line of a field
FirstToken(key) ==
    TokenAt(stats_output, key,
            Min(LinePositions(stats_output, key, 1, TokenCharsOf(key))),
            TokenCharsOf(key))

\* C3 as stated: in the returned mapping a key is present exactly if the
\* text holds its label, a colon and a numeric token, whatever the blanks on
\* either side of the colon (none included).
C3_Original ==
    parse_pc = "returned" =>
        \A key \in FieldSet :
            stats_dict[key] # Absent <=>
                \E i \in LinePositions(stats_output, key, 0, NumberChars) :
                    TokenAt(stats_output, key, i, NumberChars) \in NumericTokens

\* C3 as amended: for every field the loop has got past, the key is present
\* exactly if the text holds the label, one or more whitespace characters, a
\* colon, one or more whitespace characters and a character of the field's
\* token class; its value is then converted from the token of the leftmost
\* such place.
C3_FieldPresence ==
    parse_pc # "idle" =>
        \A key \in Processed :
            LET at == LinePositions(stats_output, key, 1, TokenCharsOf(key))
            IN  /\ stats_dict[key] # Absent <=> at # {}
                /\ at # {} =>
                     /\ ConvertToken(FirstToken(key)).ok
                     /\ stats_dict[key] = ConvertToken(FirstToken(key)).value

\* C3's case: a returned mapping holding a key whose label stands on two
\* lines with different tokens, the first after two blanks on either side
C3_Witness ==
    /\ parse_pc = "returned"
    /\ \E key \in FieldSet :
          LET at == LinePositions(stats_output, key, 2, TokenCharsOf(key))
              all == LinePositions(stats_output, key, 1, TokenCharsOf(key))
          IN  /\ at # {} /\ Cardinality(all) = 2
              /\ Min(at) = Min(all)
              /\ TokenAt(stats_output, key, Max(all), TokenCharsOf(key))
                    # FirstToken(key)
              /\ stats_dict[key] = ValueOfToken(FirstToken(key))

\* C4 as stated, on lines with blanks on both sides of the colon: for each
\* of the ten fields the stored value is the value of the whole numeric
\* token, typed by its lexical form.
C4_Original ==
    parse_pc = "returned" =>
        \A key \in FieldSet :
            LET at == LinePositions(stats_output, key, 1, NumberChars)
            IN  (at # {} /\ TokenAt(stats_output, key, Min(at), NumberChars)
                              \in NumericTokens)
                => stats_dict[key]
                     = ValueOfToken(TokenAt(stats_output, key, Min(at), NumberChars))

\* C4 as amended: for each of the seven real-valued fields the loop has got
\* past, a well-formed numeric token (the whole run of sign, digit, point
\* and exponent characters) is stored with the value of the whole token,
\* floating-point if it holds '.', 'e' or 'E' and integer otherwise; for
\* each of the three count fields the token is the leading run of digits
\* only and is stored as an integer.
C4_NumericTyping ==
    parse_pc # "idle" =>
        \A key \in Processed :
            LET at == LinePositions(stats_output, key, 1, TokenCharsOf(key))
            IN  (at # {} /\ FirstToken(key) \in NumericTokens) =>
                  /\ stats_dict[key] = ValueOfToken(FirstToken(key))
                  /\ stats_dict[key].kind = "float" <=>
                        \E n \in 1..Len(FirstToken(key)) :
                            FirstToken(key)[n] \in {".", "e", "E"}
                  /\ key \in CountFields => stats_dict[key].kind = "int"

\* C4's case: "1.5E+03" stored as the float 1500.0 for a real-valued field,
\* or its leading "1" stored as an integer for a count field
C4_Witness ==
    /\ parse_pc = "returned"
    /\ \E key \in FieldSet :
          /\ LinePositions(stats_output, key, 1, NumberChars) # {}
          /\ TokenAt(stats_output, key,
                     Min(LinePositions(stats_output, key, 1, NumberChars)),
                     NumberChars) = T1p5E03
          /\ \/ key \in RealFields
                /\ stats_dict[key] = [kind |-> "float", neg |-> FALSE,
                                      mant |-> 15, exp |-> 2]
             \/ key \in CountFields
                /\ stats_dict[key] = [kind |-> "int", neg |-> FALSE,
                                      mant |-> 1, exp |-> 0]

\* C5 as stated: no token the patterns capture fails to convert, so
\* parse_stats_output never raises.
C5_NeverRaises == parse_pc # "raised"

\* the literal label of the last field stands somewhere in the text
LiteralNoLabel(text) ==
    \E i \in 1..Len(text) :
        /\ i + 2 <= Len(text)
        /\ text[i] = "No" /\ text[i + 1] = "." /\ text[i + 2] = " of pixels excluded"

\* C7: a text without the literal label "No. of pixels excluded" never
\* yields that key, whatever stands in the period's place.
C7_LiteralLabel ==
    ~LiteralNoLabel(stats_output) =>
        stats_dict["No. of pixels excluded"] = Absent

\* C7's case: "Nox of pixels excluded : <digits>" parsed to the end
C7_Witness ==
    /\ parse_pc = "returned"
    /\ ~LiteralNoLabel(stats_output)
    /\ \E i \in 1..Len(stats_output) :
          /\ HasAt(stats_output, i, NoxLabel \o <<" ", ":", " ">>)
          /\ i + 6 <= Len(stats_output)
          /\ stats_output[i + 6] \in Digit
    /\ stats_dict["No. of pixels excluded"] = Absent

---------------------------------------------------------------------------
(* calculate_mean_rms, from the shell command on.  Calls into the file      *)
(* system (open, json.dump) are taken to succeed.                           *)

\* the separator of line 107, one symbol
BlockSeparator == "Pixel statistics for the NDF structure"

\* str.split(sep): the pieces between the occurrences of sep
RECURSIVE split(_, _)
split(text, sep) ==
    LET i == IndexOf(text, {sep})
    IN  IF i = 0 THEN <<text>>
        ELSE <<SubSeq(text, 1, i - 1)>> \o split(SubSeq(text, i + 1, Len(text)), sep)

\* s[lo:hi] of Python for 0 <= lo <= hi: never an error, cut at len(s)
py_slice(s, lo, hi) == SubSeq(s, lo + 1, Min({hi, Len(s)}))

\* the bug of a check one too low
TooFewBlocksMutThree(blocks) == Len(blocks) < 3

\* line 108
TooFewBlocks(blocks) == Len(blocks) < 4

\* the bug of a slice that starts at the preamble
stats_outputsMutFromZero(blocks) == py_slice(blocks, 0, 3)

\* line 110
stats_outputs(blocks) == py_slice(blocks, 1, 4)

\* lines 111-115, the names inside output_path
stats_files ==
    <<"noisemap_stats.json", "1kms_error_stats.json", "1kms_noisemap_stats.json">>

StatsFileSet == {stats_files[i] : i \in 1..Len(stats_files)}

\* zip(stats_outputs, stats_files) stops with the shorter of the two
ZipLen(blocks) == Min({Len(stats_outputs(blocks)), Len(stats_files)})

\* a file: not there, there from an earlier run, opened for writing and
\* still empty, or holding the JSON of a dict
FileAbsent == [state |-> "absent", data |-> EmptyDict]
FileOld == [state |-> "old", data |-> EmptyDict]
FileEmpty == [state |-> "empty", data |-> EmptyDict]
FileJson(d) == [state |-> "json", data |-> d]

\* what the shell may print: a preamble and reports, each report after a
\* separator
PreNoise == <<"n", "o", "i", "s", "e", "\n">>
PreField == <<"Kurtosis", " ", ":", " ", "7", "\n">>
SecSum == <<"\n", "Pixel sum", " ", " ", ":", " ", " ", "1", "0", ".", "5", "\n">>
SecMean == <<"\n", "Pixel mean", " ", ":", " ", "2", "\n">>
SecSkew == <<"\n", "Skewness", " ", ":", " ", "-", "0", ".", "3", "\n">>
SecBad == <<"\n", "Pixel sum", " ", ":", " ", "-", "\n">>

Preambles == {PreNoise, PreField}
SectionTexts == {SecSum, SecMean, SecSkew, SecBad}

SectionSeqs == UNION {[1..n -> SectionTexts] : n \in 0..MaxSections}

RECURSIVE Blob(_, _)
Blob(pre, secs) ==
    IF secs = <<>> THEN pre
    ELSE Blob(pre \o <<BlockSeparator>> \o Head(secs), Tail(secs))

InitRms ==
    /\ preamble = <<>> /\ sections = <<>> /\ full_output = <<>>
    /\ stats_blocks = <<>> /\ block_idx = 0 /\ block_dict = EmptyDict
    /\ files_before \in [StatsFileSet -> {FileAbsent, FileOld}]
    /\ files = files_before
    /\ written = <<>>
    /\ rms_pc = "shell" /\ rms_error = "none"
    /\ ParseIdle /\ RunIdle

\* lines 98-105, the commands succeed and their output is captured
RunShell ==
    /\ rms_pc = "shell"
    /\ \E pre \in Preambles, secs \in SectionSeqs :
          /\ preamble' = pre
          /\ sections' = secs
          /\ full_output' = Blob(pre, secs)
    /\ rms_pc' = "split"
    /\ UNCHANGED <<stats_blocks, block_idx, block_dict, files, files_before,
                   written, rms_error, parse_vars, run_vars>>

\* lines 98-104, check=True and a command that fails
RunShellRaise ==
    /\ rms_pc = "shell"
    /\ rms_pc' = "raised"
    /\ rms_error' = "CalledProcessError"
    /\ UNCHANGED <<preamble, sections, full_output, stats_blocks, block_idx,
                   block_dict, files, files_before, written, parse_vars, run_vars>>

\* line 107
SplitOutput ==
    /\ rms_pc = "split"
    /\ stats_blocks' = split(full_output, BlockSeparator)
    /\ rms_pc' = "check"
    /\ UNCHANGED <<preamble, sections, full_output, block_idx, block_dict, files,
                   files_before, written, rms_error, parse_vars, run_vars>>

\* lines 108-109
CheckBlocksRaise ==
    /\ rms_pc = "check"
    /\ TooFewBlocks(stats_blocks)
    /\ rms_pc' = "raised"
    /\ rms_error' = "ValueError: not enough stats blocks"
    /\ UNCHANGED <<preamble, sections, full_output, stats_blocks, block_idx,
                   block_dict, files, files_before, written, parse_vars, run_vars>>

\* lines 108-116, the check passes and the loop begins
CheckBlocksPass ==
    /\ rms_pc = "check"
    /\ ~TooFewBlocks(stats_blocks)
    /\ block_idx' = 1
    /\ rms_pc' = "parse"
    /\ UNCHANGED <<preamble, sections, full_output, stats_blocks, block_dict, files,
                   files_before, written, rms_error, parse_vars, run_vars>>

\* line 117, parse_stats_output returns
ParseBlock ==
    /\ rms_pc = "parse" /\ block_idx <= ZipLen(stats_blocks)
    /\ LET r == parse_stats_output(stats_outputs(stats_blocks)[block_idx])
       IN  /\ r.ok
           /\ block_dict' = r.dict
    /\ rms_pc' = "open"
    /\ UNCHANGED <<preamble, sections, full_output, stats_blocks, block_idx, files,
                   files_before, written, rms_error, parse_vars, run_vars>>

\* the bug of opening the file before parsing: the file is already
\* truncated when parse_stats_output raises
ParseBlockRaiseMutOpened ==
    /\ rms_pc = "parse" /\ block_idx <= ZipLen(stats_blocks)
    /\ ~parse_stats_output(stats_outputs(stats_blocks)[block_idx]).ok
    /\ files' = [files EXCEPT ![stats_files[block_idx]] = FileEmpty]
    /\ rms_pc' = "raised"
    /\ rms_error' = "ValueError: conversion"
    /\ UNCHANGED <<preamble, sections, full_output, stats_blocks, block_idx,
                   block_dict, files_before, written, parse_vars, run_vars>>

\* line 117, parse_stats_output raises
ParseBlockRaise ==
    /\ rms_pc = "parse" /\ block_idx <= ZipLen(stats_blocks)
    /\ ~parse_stats_output(stats_outputs(stats_blocks)[block_idx]).ok
    /\ rms_pc' = "raised"
    /\ rms_error' = "ValueError: conversion"
    /\ UNCHANGED <<preamble, sections, full_output, stats_blocks, block_idx,
                   block_dict, files, files_before, written, parse_vars, run_vars>>

\* line 118: open(json_file, 'w') creates or truncates the file
OpenFile ==
    /\ rms_pc = "open"
    /\ files' = [files EXCEPT ![stats_files[block_idx]] = FileEmpty]
    /\ rms_pc' = "dump"
    /\ UNCHANGED <<preamble, sections, full_output, stats_blocks, block_idx,
                   block_dict, files_before, written, rms_error, parse_vars, run_vars>>

\* lines 119-120 and the next turn of the loop
DumpFile ==
    /\ rms_pc = "dump"
    /\ files' = [files EXCEPT ![stats_files[block_idx]] = FileJson(block_dict)]
    /\ written' = Append(written, stats_files[block_idx])
    /\ block_idx' = block_idx + 1
    /\ rms_pc' = "parse"
    /\ UNCHANGED <<preamble, sections, full_output, stats_blocks, block_dict,
                   files_before, rms_error, parse_vars, run_vars>>

\* line 116, zip is exhausted and the method returns
RmsReturn ==
    /\ rms_pc = "parse" /\ block_idx > ZipLen(stats_blocks)
    /\ rms_pc' = "done"
    /\ UNCHANGED <<preamble, sections, full_output, stats_blocks, block_idx,
                   block_dict, files, files_before, written, rms_error,
                   parse_vars, run_vars>>

NextRms ==
    \/ RunShell \/ RunShellRaise \/ SplitOutput \/ CheckBlocksRaise
    \/ CheckBlocksPass \/ ParseBlock \/ ParseBlockRaise \/ OpenFile
    \/ DumpFile \/ RmsReturn

SpecRms == InitRms /\ [][NextRms]_vars

---------------------------------------------------------------------------
(* What the claims about calculate_mean_rms speak of.                       *)

\* the number of separators in a text
SeparatorCount(text) == Cardinality({i \in 1..Len(text) : text[i] = BlockSeparator})

\* the output has been captured: the shell step lies behind
Captured == rms_pc \notin {"idle", "shell"} /\ rms_error # "CalledProcessError"

\* the call has ended, one way or the other
RmsEnded == rms_pc \in {"done", "raised"}

IsPrefix(s, t) == Len(s) <= Len(t) /\ \A i \in 1..Len(s) : s[i] = t[i]

\* the record each printed report stands for (the unparseable one: none)
Parseable(sec) == sec \in {SecSum, SecMean, SecSkew}

RecordOf(sec) ==
    CASE sec = SecSum ->
           [EmptyDict EXCEPT !["Pixel sum"] =
               [kind |-> "float", neg |-> FALSE, mant |-> 105, exp |-> -1]]
      [] sec = SecMean ->
           [EmptyDict EXCEPT !["Pixel mean"] =
               [kind |-> "int", neg |-> FALSE, mant |-> 2, exp |-> 0]]
      [] sec = SecSkew ->
           [EmptyDict EXCEPT !["Skewness"] =
               [kind |-> "float", neg |-> TRUE, mant |-> 3, exp |-> -1]]

\* C1: a captured output with fewer than three separators ends in the
\* error of line 109, and at no point of the call is any of the three
\* files created, truncated or written.
C1_FailureLaw ==
    (Captured /\ SeparatorCount(full_output) < 3) =>
        /\ files = files_before
        /\ written = <<>>
        /\ rms_pc # "done"
        /\ rms_pc = "raised" => rms_error = "ValueError: not enough stats blocks"

\* C1's case: two reports only, each parseable, a file left from an earlier
\* run, and the call ended in the error
C1_Witness ==
    /\ rms_pc = "raised"
    /\ rms_error = "ValueError: not enough stats blocks"
    /\ Len(sections) = 2
    /\ \A i \in 1..2 : Parseable(sections[i])
    /\ files_before[stats_files[1]] = FileOld
    /\ files_before[stats_files[2]] = FileAbsent

\* C2: a captured output of a preamble and exactly three parseable reports
\* raises nothing, and when the call returns exactly the three files are
\* written, in the order of stats_files, file i holding the record of
\* report i and nothing of the preamble or of another report.
C2_SplittingLaw ==
    (Captured /\ Len(sections) = 3 /\ \A i \in 1..3 : Parseable(sections[i])) =>
        /\ rms_pc # "raised"
        /\ rms_pc = "done" =>
              /\ written = stats_files
              /\ \A i \in 1..3 :
                    files[stats_files[i]] = FileJson(RecordOf(sections[i]))

\* C2's case: the three reports differ, the preamble holds a field line of
\* its own, and the call has returned
C2_Witness ==
    /\ rms_pc = "done"
    /\ preamble = PreField
    /\ sections = <<SecSum, SecMean, SecSkew>>
    /\ files[stats_files[1]] = FileJson(RecordOf(SecSum))
    /\ files[stats_files[3]] = FileJson(RecordOf(SecSkew))

\* C6 as stated: a captured output with more than three reports raises no
\* error and ends with exactly three records, those of reports 1, 2, 3.
C6_FirstThreeOnly ==
    (Captured /\ Len(sections) > 3 /\ RmsEnded) =>
        /\ rms_pc = "done"
        /\ written = stats_files
        /\ \A i \in 1..3 :
              /\ Parseable(sections[i])
              /\ files[stats_files[i]] = FileJson(RecordOf(sections[i]))

\* C9: the files written so far are a prefix of stats_files; a file differs
\* from what it was before the call only if its report was parsed and every
\* earlier file holds its record; and when parsing report k raises, files
\* 1..k-1 hold their records and files k..3 are as they were before.
C9_PrefixPersistence ==
    Captured =>
        /\ IsPrefix(written, stats_files)
        /\ \A k \in 1..Len(stats_files) :
              files[stats_files[k]] # files_before[stats_files[k]] =>
                  /\ k <= Len(sections) /\ Parseable(sections[k])
                  /\ \A j \in 1..(k - 1) :
                        /\ j <= Len(written)
                        /\ files[stats_files[j]] = FileJson(RecordOf(sections[j]))
        /\ rms_error = "ValueError: conversion" =>
              /\ ~Parseable(sections[block_idx])
              /\ Len(written) = block_idx - 1
              /\ \A j \in 1..(block_idx - 1) :
                    files[stats_files[j]] = FileJson(RecordOf(sections[j]))
              /\ \A j \in block_idx..Len(stats_files) :
                    files[stats_files[j]] = files_before[stats_files[j]]

\* C9's case: parsing the second report raised; the first file is written,
\* the second, there from an earlier run, is untouched, the third is absent
C9_Witness ==
    /\ rms_pc = "raised"
    /\ rms_error = "ValueError: conversion"
    /\ block_idx = 2
    /\ files[stats_files[1]].state = "json"
    /\ files_before[stats_files[2]] = FileOld
    /\ files[stats_files[2]] = FileOld
    /\ files[stats_files[3]] = FileAbsent

---------------------------------------------------------------------------
(* run and run_starlink_collapse.  A config is known by its programID,      *)
(* which names its data folder and so its mom0.fits; two configs may share  *)
(* one.  Every external stage either returns or raises, and no exception    *)
(* is caught anywhere in run.                                               *)

ProgramIDs == {"M09BC12", "M10AC07"}

ConfigLists == UNION {[1..n -> ProgramIDs] : n \in 0..MaxConfigs}

\* mom0.fits: not there, there from an earlier run, written by the collapse
\* command of config `by`, or left behind by a collapse command that failed
Mom0Absent == [state |-> "absent", by |-> 0]
Mom0Old == [state |-> "old", by |-> 0]
Mom0Collapsed(i) == [state |-> "collapsed", by |-> i]
Mom0Partial(i) == [state |-> "partial", by |-> i]

\* the bug of a guard that never sees the file
OutputExistsMutNever(p) == FALSE

\* line 28: os.path.exists(output_path)
OutputExists(p) == mom0[p].state # "absent"

InitRun ==
    /\ configs \in ConfigLists
    /\ cfg_idx = 1
    /\ run_pc = "load"
    /\ mom0 \in [ProgramIDs -> {Mom0Absent, Mom0Old}]
    /\ stage_log = <<>>
    /\ stage_done = 0
    /\ collapse_cmds = [p \in ProgramIDs |-> 0]
    /\ ParseIdle /\ RmsIdle

\* lines 124-136: the next config is opened and read
LoadConfig ==
    /\ run_pc = "load" /\ cfg_idx <= Len(configs)
    /\ run_pc' = "julia"
    /\ UNCHANGED <<configs, cfg_idx, mom0, stage_log, stage_done, collapse_cmds,
                   parse_vars, rms_vars>>

\* lines 125-133: open, json.load, a missing key or an empty glob raises
LoadConfigRaise ==
    /\ run_pc = "load" /\ cfg_idx <= Len(configs)
    /\ run_pc' = "raised"
    /\ UNCHANGED <<configs, cfg_idx, mom0, stage_log, stage_done, collapse_cmds,
                   parse_vars, rms_vars>>

\* line 139, the call
StartJulia ==
    /\ run_pc = "julia"
    /\ stage_log' = Append(stage_log, <<cfg_idx, "julia">>)
    /\ run_pc' = "in_julia"
    /\ UNCHANGED <<configs, cfg_idx, mom0, stage_done, collapse_cmds,
                   parse_vars, rms_vars>>

\* lines 18-25, the notebook runs through
JuliaReturn ==
    /\ run_pc = "in_julia"
    /\ stage_done' = stage_done + 1
    /\ run_pc' = "collapse"
    /\ UNCHANGED <<configs, cfg_idx, mom0, stage_log, collapse_cmds,
                   parse_vars, rms_vars>>

\* the bug of an exception caught and dropped inside run
JuliaRaiseMutSwallowed ==
    /\ run_pc = "in_julia"
    /\ run_pc' = "collapse"
    /\ UNCHANGED <<configs, cfg_idx, mom0, stage_log, stage_done, collapse_cmds,
                   parse_vars, rms_vars>>

\* lines 20-25, open, nb_read or client.execute raises
JuliaRaise ==
    /\ run_pc = "in_julia"
    /\ run_pc' = "raised"
    /\ UNCHANGED <<configs, cfg_idx, mom0, stage_log, stage_done, collapse_cmds,
                   parse_vars, rms_vars>>

\* line 140, the call
StartCollapse ==
    /\ run_pc = "collapse"
    /\ stage_log' = Append(stage_log, <<cfg_idx, "collapse">>)
    /\ run_pc' = "in_collapse"
    /\ UNCHANGED <<configs, cfg_idx, mom0, stage_done, collapse_cmds,
                   parse_vars, rms_vars>>

\* lines 28-30: the output exists, return at once
CollapseSkip ==
    /\ run_pc = "in_collapse"
    /\ OutputExists(configs[cfg_idx])
    /\ stage_done' = stage_done + 1
    /\ run_pc' = "viz"
    /\ UNCHANGED <<configs, cfg_idx, mom0, stage_log, collapse_cmds,
                   parse_vars, rms_vars>>

\* lines 31-39: the command runs and writes the output
CollapseRun ==
    /\ run_pc = "in_collapse"
    /\ ~OutputExists(configs[cfg_idx])
    /\ collapse_cmds' = [collapse_cmds EXCEPT ![configs[cfg_idx]] = @ + 1]
    /\ mom0' = [mom0 EXCEPT ![configs[cfg_idx]] = Mom0Collapsed(cfg_idx)]
    /\ stage_done' = stage_done + 1
    /\ run_pc' = "viz"
    /\ UNCHANGED <<configs, cfg_idx, stage_log, parse_vars, rms_vars>>

\* lines 31-39: the command runs and fails (check=True), with or without
\* an output file left behind
CollapseRunRaise ==
    /\ run_pc = "in_collapse"
    /\ ~OutputExists(configs[cfg_idx])
    /\ collapse_cmds' = [collapse_cmds EXCEPT ![configs[cfg_idx]] = @ + 1]
    /\ \E left \in {mom0[configs[cfg_idx]], Mom0Partial(cfg_idx)} :
          mom0' = [mom0 EXCEPT ![configs[cfg_idx]] = left]
    /\ run_pc' = "raised"
    /\ UNCHANGED <<configs, cfg_idx, stage_log, stage_done, parse_vars, rms_vars>>

\* line 141, the call
StartViz ==
    /\ run_pc = "viz"
    /\ stage_log' = Append(stage_log, <<cfg_idx, "viz">>)
    /\ run_pc' = "in_viz"
    /\ UNCHANGED <<configs, cfg_idx, mom0, stage_done, collapse_cmds,
                   parse_vars, rms_vars>>

\* lines 41-47 and 142, the notebook runs through and the loop moves on
VizReturn ==
    /\ run_pc = "in_viz"
    /\ stage_done' = stage_done + 1
    /\ cfg_idx' = cfg_idx + 1
    /\ run_pc' = "load"
    /\ UNCHANGED <<configs, mom0, stage_log, collapse_cmds, parse_vars, rms_vars>>

\* lines 43-47, open, nb_read or client.execute raises
VizRaise ==
    /\ run_pc = "in_viz"
    /\ run_pc' = "raised"
    /\ UNCHANGED <<configs, cfg_idx, mom0, stage_log, stage_done, collapse_cmds,
                   parse_vars, rms_vars>>

\* line 143, the loop is over
RunReturn ==
    /\ run_pc = "load" /\ cfg_idx > Len(configs)
    /\ run_pc' = "done"
    /\ UNCHANGED <<configs, cfg_idx, mom0, stage_log, stage_done, collapse_cmds,
                   parse_vars, rms_vars>>

NextRun ==
    \/ LoadConfig \/ LoadConfigRaise \/ StartJulia \/ JuliaReturn \/ JuliaRaise
    \/ StartCollapse \/ CollapseSkip \/ CollapseRun \/ CollapseRunRaise
    \/ StartViz \/ VizReturn \/ VizRaise \/ RunReturn

SpecRun == InitRun /\ [][NextRun]_vars

---------------------------------------------------------------------------
(* What the claims about run and run_starlink_collapse speak of.            *)

StageOrder == <<"julia", "collapse", "viz">>

\* the n-th stage of a run, counted over all configs: config by config,
\* PSI notebook, collapse, visualization
NthStage(n) == <<((n - 1) \div 3) + 1, StageOrder[((n - 1) % 3) + 1]>>

\* C8: a stage starts only in a state where nothing has raised and every
\* stage started before has returned without error, and the stage that
\* starts is the next one in the order config by config, PSI notebook,
\* collapse, visualization.
C8_StageOrdering ==
    [][stage_log' # stage_log =>
          /\ run_pc # "raised"
          /\ stage_done = Len(stage_log)
          /\ stage_log' = Append(stage_log, NthStage(Len(stage_log) + 1))
          /\ NthStage(Len(stage_log) + 1)[1] <= Len(configs)]_vars

\* C8's case: the first config ran its three stages, the PSI notebook of
\* the second raised, and the third config was never begun
C8_Witness ==
    /\ run_pc = "raised"
    /\ Len(configs) = 3
    /\ cfg_idx = 2
    /\ stage_log = <<<<1, "julia">>, <<1, "collapse">>, <<1, "viz">>, <<2, "julia">>>>
    /\ stage_done = 3

\* C10: the external collapse command runs only in states where the output
\* does not exist, and an output that exists is left as it is and keeps
\* the command from running, call after call.
C10_SkipIfPresent ==
    [][\A p \in ProgramIDs :
          /\ collapse_cmds'[p] # collapse_cmds[p] => mom0[p].state = "absent"
          /\ mom0[p].state # "absent" =>
                /\ mom0'[p] = mom0[p]
                /\ collapse_cmds'[p] = collapse_cmds[p]]_vars

\* C10's case: the second config shares its output path with the first,
\* whose call produced the output; the second call has returned without
\* running the command
C10_Witness ==
    /\ Len(configs) >= 2
    /\ configs[1] = configs[2]
    /\ cfg_idx = 2 /\ run_pc = "viz"
    /\ mom0[configs[2]] = Mom0Collapsed(1)
    /\ collapse_cmds[configs[2]] = 1

---------------------------------------------------------------------------
(* The three specifications side by side: one of the three methods is       *)
(* called.                                                                  *)

Init == InitParse \/ InitRms \/ InitRun

Next == NextParse \/ NextRms \/ NextRun

Spec == Init /\ [][Next]_vars

===========================================================================
